---- MODULE Spec2Model ----
(***************************************************************************)
(* A model of policy_dbtools/dbtools.py: the AuthenticatedCursor           *)
(* connection handle, the MongoReader read methods and the MongoWriter     *)
(* backup / write / restore protocol, run by one caller against one        *)
(* database that holds the target collection and its `<name>_backup`       *)
(* sibling.                                                                *)
(*                                                                         *)
(* Driver calls (pymongo) are modelled by what the driver does to the      *)
(* database: every call that reaches the server either takes effect or     *)
(* raises, chosen nondeterministically, and on top of that raises when its *)
(* own precondition fails (rename: the source is missing or the new name   *)
(* is already taken; create_collection: the name is already taken;         *)
(* bulk_write: the list of operations is empty).                           *)
(***************************************************************************)
EXTENDS Integers, Sequences, FiniteSets, TLC

\* ------------------------------------------------------------------ bounds
MaxDocs == 2      \* most documents in a collection, and in one input
MaxLive == 2      \* most driver clients open at once
MaxFields == 2    \* longest fields list given to _find

\* ------------------------------------------------------------------ values
Docs == {"A", "B"}

None == "None"

\* self.collection_name and f"{self.collection.name}_backup"
collection_name == "coll"
BackupName(name) == name \o "_backup"
CollNames == {collection_name, BackupName(collection_name)}

\* A collection of the database: missing, or present with its documents in
\* insertion order.
Absent == [exists |-> FALSE, docs |-> <<>>]
Present(ds) == [exists |-> TRUE, docs |-> ds]

SeqsUpTo(n) == UNION {[1..k -> Docs] : k \in 0..n}

\* exceptions
ConfigurationError == "ConfigurationError"
OperationFailure == "OperationFailure"
CollectionInvalid == "CollectionInvalid"
InvalidOperation == "InvalidOperation"
AttributeError == "AttributeError"
BodyError == "BodyError"
BulkErrors == {"BulkWriteError", "AutoReconnect"}
ValueError == "ValueError"

\* ---------------------------------------------------------- driver effects
\* Collection.rename(new_name): the server refuses when the source does not
\* exist or the new name is taken (no dropTarget is passed); renaming a
\* collection to its own name is therefore refused as well.
RenameNeverRefused(cs, src, dst) == FALSE
RenameRefused(cs, src, dst) == ~cs[src].exists \/ cs[dst].exists
RenamedKeepingSource(cs, src, dst) == [cs EXCEPT ![dst] = cs[src]]
RenamedLosingData(cs, src, dst) ==
    [cs EXCEPT ![dst] = Present(<<>>), ![src] = Absent]
Renamed(cs, src, dst) == [cs EXCEPT ![dst] = cs[src], ![src] = Absent]

\* Database.create_collection(name): refuses an existing name.
CreateRefused(cs, name) == cs[name].exists
Created(cs, name) == [cs EXCEPT ![name] = Present(<<>>)]

\* Database.drop_collection(name)
Dropped(cs, name) == [cs EXCEPT ![name] = Absent]

\* Collection.aggregate([{"$out": dst}]): dst is replaced by a copy of src.
MirroredEmpty(cs, src, dst) == [cs EXCEPT ![dst] = Present(<<>>)]
MirroredKeepingOld(cs, src, dst) ==
    IF cs[dst].exists THEN cs ELSE [cs EXCEPT ![dst] = Present(cs[src].docs)]
MirroredByRename(cs, src, dst) == [cs EXCEPT ![dst] = cs[src], ![src] = Absent]
Mirrored(cs, src, dst) == [cs EXCEPT ![dst] = Present(cs[src].docs)]

\* the bulk operations of the two write modes
DeleteMany == [op |-> "DeleteMany"]
InsertOne(document) == [op |-> "InsertOne", document |-> document]

InsertOps(d) == [i \in 1..Len(d) |-> InsertOne(d[i])]

ReplaceOpsNoInsert(d) == <<DeleteMany>>
ReplaceOps(d) == <<DeleteMany>> \o InsertOps(d)

\* Collection.bulk_write (ordered): the first k operations applied in order.
ApplyOpOverwriting(ds, o) ==
    IF o.op = "DeleteMany" THEN <<>> ELSE <<o.document>>
ApplyOp(ds, o) == IF o.op = "DeleteMany" THEN <<>> ELSE Append(ds, o.document)

RECURSIVE ApplyOps(_, _, _)
ApplyOps(ds, ops, k) ==
    IF k = 0 THEN ds ELSE ApplyOp(ApplyOps(ds, ops, k - 1), ops[k])

BulkWritten(cs, name, ops, k) ==
    [cs EXCEPT ![name] = Present(ApplyOps(cs[name].docs, ops, k))]

\* a query: None (match all) or a document to match
Queries == {None} \cup Docs
Matches(query, doc) == query = None \/ query = doc
Find(cs, name, query) == SelectSeq(cs[name].docs, LAMBDA doc : Matches(query, doc))

\* -------------------------------------------------------------- config.ini
\* The options of the [MONGODB] section, in the order _check_credentials
\* looks them up, and MONGO_DB, which the constructor looks up.
CredentialOptions == <<"MONGO_USERNAME", "MONGO_PASSWORD", "MONGO_CLUSTER">>
Credentials == {"MONGO_USERNAME", "MONGO_PASSWORD", "MONGO_CLUSTER"}
Options == Credentials \cup {"MONGO_DB"}

\* A string is the sequence of its characters. NoValue stands for Python's
\* None where a string or a list is expected: an argument that was not
\* supplied, an option the file does not have.
NoValue == <<"None">>
Values == {<<" ", "a">>, <<"%", "%">>, <<"%">>}
MaybeValues == Values \cup {NoValue}
\* set_config is called with at most two of its four arguments.
SetConfigArgs ==
    {args \in [Options -> MaybeValues] :
        \E o1, o2 \in Options :
           \A o \in Options \ {o1, o2} : args[o] = NoValue}
\* An argument of _check_credentials and of the constructor.
CallSiteValues == {NoValue, <<"b">>}

\* config[section][option] = value: ConfigParser's BasicInterpolation refuses
\* (ValueError) a value in which a "%" is not doubled.
RECURSIVE ValidValue(_)
ValidValue(v) ==
    IF v = <<>> THEN TRUE
    ELSE IF Head(v) = "%"
         THEN Len(v) >= 2 /\ v[2] = "%" /\ ValidValue(SubSeq(v, 3, Len(v)))
         ELSE ValidValue(Tail(v))

\* config.write(file) followed by a later config.read(file): the parser
\* strips the white space around a value.
RECURSIVE LStrip(_)
LStrip(v) == IF v # <<>> /\ Head(v) = " " THEN LStrip(Tail(v)) ELSE v
RECURSIVE RStrip(_)
RStrip(v) ==
    IF v # <<>> /\ v[Len(v)] = " " THEN RStrip(SubSeq(v, 1, Len(v) - 1)) ELSE v
Stored(v) == LStrip(RStrip(v))

\* config[section][option]: BasicInterpolation turns "%%" into "%". (A lone
\* "%" cannot be in the file: ValidValue refused it.)
RECURSIVE Interpolated(_)
Interpolated(v) ==
    IF v = <<>> THEN <<>>
    ELSE IF Head(v) = "%" /\ Len(v) >= 2 /\ v[2] = "%"
         THEN <<"%">> \o Interpolated(SubSeq(v, 3, Len(v)))
         ELSE <<Head(v)>> \o Interpolated(Tail(v))

\* The file: missing, or present with the options a parser reads from it.
NoOptions == [o \in Options |-> NoValue]
NoFile == [exists |-> FALSE, options |-> NoOptions]
File(opts) == [exists |-> TRUE, options |-> opts]

\* config.has_option("MONGODB", option) and config["MONGODB"][option]
has_option(file, option) == file.options[option] # NoValue
GetRaw(file, option) == file.options[option]
Get(file, option) == Interpolated(file.options[option])

\* ------------------------------------------------------------- the server
DbNames == {"db1", "db2"}
CollectionNames == {collection_name, "other"}

\* client.list_database_names(): a database exists while it has a collection.
list_database_names(srv) == {d \in DbNames : srv[d] # {}}
\* client[db_name].list_collection_names()
list_collection_names(srv, d) == srv[d]

\* ----------------------------------------------------------------- _find
FieldNames == {"_id", "x", "y"}
FieldLists == UNION {[1..k -> FieldNames] : k \in 0..MaxFields}
MatchAll == "{}"

\* ------------------------------------------------------------------- state
VARIABLES
    colls,            \* the database: collection name -> collection
    client,           \* AuthenticatedCursor._client: None or a live client
    live,             \* driver clients opened by connect() and not yet closed
    scope,            \* the caller's own `with cursor:` block: "out" or "body"
    bodyExc,          \* the exception that left the body of that block, or None
    pc,               \* position of the running method
    method,           \* the method running or last finished
    data,             \* its `data` argument
    preserve_backup,  \* its `preserve_backup` argument
    query,            \* its `query` argument
    e,                \* the exception caught by the method's `except`
    exc,              \* the exception propagating out of the method
    status,           \* "running", "returned" or "raised"
    result,           \* the value the method returned
    pre,              \* the database when the method was called
    clientBefore,     \* client when the method was called
    liveBefore,       \* live when the method was called
    enters,           \* __enter__ calls made by the method
    raised,           \* the steps of the method at which something raised
    faults,           \* those of them where the driver call itself failed
    config,           \* the config.ini file at CONFIG_PATH
    written,          \* per option, the value set_config last wrote for it
    cfgBefore,        \* the config file when the last config call was made
    cfgArgs,          \* the arguments of the last config call
    credentials,      \* what the last config read handed back, per option
    server,           \* the server: database name -> names of its collections
    db_name,          \* AuthenticatedCursor.db_name
    selected,         \* collection_name of the reader / writer under set_collection
    selArg,           \* the name given to the last set_db / set_collection
    selBefore,        \* the attribute that call sets, before the call
    selListed,        \* the live list that call read
    fields,           \* the fields argument of _find
    include_id,       \* MongoReader.include_id
    find_args,        \* what _find hands to Collection.find
    callers,          \* two callers sharing the cursor: where each one is
    closer            \* the caller whose __exit__ last closed the client

vars == <<colls, client, live, scope, bodyExc, pc, method, data,
          preserve_backup, query, e, exc, status, result, pre, clientBefore,
          liveBefore, enters, raised, faults, config, written, cfgBefore,
          cfgArgs, credentials, server, db_name, selected, selArg, selBefore,
          selListed, fields, include_id, find_args, callers, closer>>

cursorVars == <<client, live>>
cfgVars == <<config, written, cfgBefore, cfgArgs, credentials>>
selVars == <<server, db_name, selected, selArg, selBefore, selListed>>
findVars == <<fields, include_id, find_args>>
raceVars == <<callers, closer>>
otherVars == <<cfgVars, selVars, findVars, raceVars>>
argVars == <<method, data, preserve_backup, query, pre, clientBefore, liveBefore>>

Target == colls[collection_name]
Backup == colls[BackupName(collection_name)]

\* The state after construction: the writer and the reader were built on an
\* existing collection (set_collection checked it), no client is open.
InitCursor(ts) ==
    /\ \E t \in ts :
          colls = [n \in CollNames |->
                      IF n = collection_name THEN Present(t) ELSE Absent]
    /\ client = None
    /\ live = 0
    /\ scope = "out"
    /\ bodyExc = None
    /\ pc = "idle"
    /\ method = None
    /\ data = <<>>
    /\ preserve_backup = FALSE
    /\ query = None
    /\ e = None
    /\ exc = None
    /\ status = "returned"
    /\ result = <<>>
    /\ pre = colls
    /\ clientBefore = None
    /\ liveBefore = 0
    /\ enters = 0
    /\ raised = {}
    /\ faults = {}

\* No config call was made yet, on the file as it is.
InitConfig(file) ==
    /\ config = file
    /\ written = NoOptions
    /\ cfgBefore = file
    /\ cfgArgs = NoOptions
    /\ credentials = NoOptions

\* The cursor was constructed on a database, the reader or writer on a
\* collection of it: both were found on the server (lines 209 and 352).
InitSelection(srv, d, c) ==
    /\ server = srv
    /\ db_name = d
    /\ selected = c
    /\ selArg = None
    /\ selBefore = None
    /\ selListed = {}

\* _find was not called yet.
InitFind(fs, inc) ==
    /\ fields = fs
    /\ include_id = inc
    /\ find_args = [filter |-> None, projection |-> <<>>]

\* Nobody shares the cursor yet.
Callers == {"caller1", "caller2"}
Outside == [pc |-> "idle", status |-> "returned", exc |-> None]
InitCallers ==
    /\ callers = [c \in Callers |-> Outside]
    /\ closer = None

Init ==
    /\ InitCursor(SeqsUpTo(MaxDocs))
    /\ InitCallers
    /\ InitConfig(NoFile)
    /\ InitSelection([d \in DbNames |->
                         IF d = "db1" THEN {collection_name} ELSE {}],
                     "db1", collection_name)
    /\ InitFind(NoValue, FALSE)

\* The caller can make its next call: nothing is running, and no exception
\* is on its way out of the body of the caller's with block.
BodyFailed == scope = "body" /\ pc = "done" /\ status = "raised"
Ready == pc \in {"idle", "done"} /\ ~BodyFailed

\* A call ends: it returns or raises to the caller.
Finish(st, ex) ==
    /\ pc' = "done"
    /\ status' = st
    /\ exc' = ex

\* ------------------------------------------------- AuthenticatedCursor
\* What a call records about itself when it starts.
Call(m, d, p, q) ==
    /\ method' = m
    /\ data' = d
    /\ preserve_backup' = p
    /\ query' = q
    /\ pre' = colls
    /\ clientBefore' = client
    /\ liveBefore' = live
    /\ e' = None
    /\ result' = <<>>
    /\ bodyExc' = None

\* connect(): self._client = MongoClient(uri). The client it replaces, if
\* any, is not closed.
Connected ==
    /\ client' = "MongoClient"
    /\ live' = live + 1

\* close(): self._client.close(); self._client = None
Closed ==
    /\ client' = None
    /\ live' = live - 1

\* __exit__: close the client if there is one. Its return value (None) tells
\* Python not to suppress the exception that left the block.
ExitLeavesOpen == UNCHANGED cursorVars
ExitClosesAnyway == Closed
ExitCloses == IF client # None THEN Closed ELSE UNCHANGED cursorVars
ExitSuppressesAll == TRUE
ExitSuppresses == FALSE

\* cursor.connect() called by the caller
connect ==
    /\ Ready
    /\ live < MaxLive
    /\ Call("connect", <<>>, FALSE, None)
    /\ enters' = 0
    /\ \E ok \in BOOLEAN :
          IF ok
          THEN /\ Connected
               /\ raised' = {}
               /\ faults' = {}
               /\ Finish("returned", None)
          ELSE /\ UNCHANGED cursorVars
               /\ raised' = {"connect"}
               /\ faults' = {"connect"}
               /\ Finish("raised", ConfigurationError)
    /\ UNCHANGED <<colls, scope>>
    /\ UNCHANGED otherVars

\* cursor.close() called by the caller: with no client, None has no close().
close ==
    /\ Ready
    /\ Call("close", <<>>, FALSE, None)
    /\ enters' = 0
    /\ IF client = None
       THEN /\ UNCHANGED cursorVars
            /\ raised' = {"close"}
            /\ faults' = {}
            /\ Finish("raised", AttributeError)
       ELSE /\ Closed
            /\ raised' = {}
            /\ faults' = {}
            /\ Finish("returned", None)
    /\ UNCHANGED <<colls, scope>>
    /\ UNCHANGED otherVars

\* `with cursor:` written by the caller: __enter__ connects.
enter_scope ==
    /\ Ready
    /\ scope = "out"
    /\ live < MaxLive
    /\ Call("__enter__", <<>>, FALSE, None)
    /\ enters' = 1
    /\ \E ok \in BOOLEAN :
          IF ok
          THEN /\ Connected
               /\ scope' = "body"
               /\ raised' = {}
               /\ faults' = {}
               /\ Finish("returned", None)
          ELSE /\ UNCHANGED cursorVars
               /\ scope' = "out"
               /\ raised' = {"connect"}
               /\ faults' = {"connect"}
               /\ Finish("raised", ConfigurationError)
    /\ UNCHANGED colls
    /\ UNCHANGED otherVars

\* the body of the caller's with block raises
body_raise ==
    /\ Ready
    /\ scope = "body"
    /\ Call("raise", <<>>, FALSE, None)
    /\ enters' = 0
    /\ raised' = {"raise"}
    /\ faults' = {}
    /\ Finish("raised", BodyError)
    /\ UNCHANGED <<colls, client, live, scope>>
    /\ UNCHANGED otherVars

\* the caller's with block is left, normally or by the exception of the
\* statement that failed in it: __exit__(exc_type, exc_value, traceback)
exit_scope ==
    /\ pc \in {"idle", "done"}
    /\ scope = "body"
    /\ LET leaving == IF status = "raised" THEN exc ELSE None
       IN  /\ method' = "__exit__"
           /\ bodyExc' = leaving
           /\ IF leaving # None /\ ~ExitSuppresses
              THEN Finish("raised", leaving)
              ELSE Finish("returned", None)
    /\ ExitCloses
    /\ scope' = "out"
    /\ clientBefore' = client
    /\ liveBefore' = live
    /\ UNCHANGED <<colls, data, preserve_backup, query, e, result, pre,
                   enters, raised, faults>>
    /\ UNCHANGED otherVars

\* `with self.cursor` of a reader or writer method: __enter__, then the
\* first statement of the block.
EnterWith(next) ==
    /\ enters' = 1
    /\ \E ok \in BOOLEAN :
          IF ok
          THEN /\ Connected
               /\ pc' = next
               /\ status' = "running"
               /\ exc' = None
               /\ raised' = {}
               /\ faults' = {}
          ELSE /\ UNCHANGED cursorVars
               /\ raised' = {"connect"}
               /\ faults' = {"connect"}
               /\ Finish("raised", ConfigurationError)

\* A statement of the with block raises outside the try: the block is left.
ThrowCaught(label, x, fault) ==
    /\ raised' = raised \cup {label}
    /\ faults' = IF fault THEN faults \cup {label} ELSE faults
    /\ exc' = e
    /\ pc' = "exit"
    /\ UNCHANGED <<e, status>>
Throw(label, x, fault) ==
    /\ raised' = raised \cup {label}
    /\ faults' = IF fault THEN faults \cup {label} ELSE faults
    /\ exc' = x
    /\ pc' = "exit"
    /\ UNCHANGED <<e, status>>

\* A statement inside the try raises: `except Exception as e` catches it.
Catch(label, x, fault) ==
    /\ raised' = raised \cup {label}
    /\ faults' = IF fault THEN faults \cup {label} ELSE faults
    /\ e' = x
    /\ pc' = "except"
    /\ UNCHANGED <<exc, status>>

\* A statement completes and control moves on.
Goto(next) ==
    /\ pc' = next
    /\ UNCHANGED <<e, exc, status, raised, faults>>

\* the with block of a reader or writer method is left: __exit__
exit ==
    /\ pc = "exit"
    /\ ExitCloses
    /\ IF exc # None /\ ~ExitSuppresses
       THEN Finish("raised", exc)
       ELSE Finish("returned", None)
    /\ UNCHANGED <<colls, scope, bodyExc, method, data, preserve_backup,
                   query, e, result, pre, clientBefore, liveBefore, enters,
                   raised, faults>>
    /\ UNCHANGED otherVars

\* --------------------------------------------------------- MongoWriter
\* The collection property: None when the cursor has no client, so that the
\* method called on it raises AttributeError.
NoCollection == client = None

\* The caller makes its write calls on a handle with no client open and
\* outside its own with block.
Fresh == Ready /\ scope = "out" /\ client = None /\ live = 0

\* drop_all_and_insert(data, preserve_backup=...): `with self.cursor`
drop_all_and_insert ==
    /\ Fresh
    /\ \E d \in SeqsUpTo(MaxDocs), p \in BOOLEAN :
          Call("drop_all_and_insert", d, p, None)
    /\ EnterWith("rename")
    /\ UNCHANGED <<colls, scope>>
    /\ UNCHANGED otherVars

\* self.collection.rename(f"{self.collection.name}_backup")
rename_to_backup ==
    /\ pc = "rename"
    /\ \E ok \in BOOLEAN :
          IF NoCollection
          THEN /\ Throw("rename", AttributeError, FALSE)
               /\ UNCHANGED colls
          ELSE IF RenameRefused(colls, collection_name,
                                BackupName(collection_name))
          THEN /\ Throw("rename", OperationFailure, FALSE)
               /\ UNCHANGED colls
          ELSE IF ~ok
          THEN /\ Throw("rename", OperationFailure, TRUE)
               /\ UNCHANGED colls
          ELSE /\ colls' = Renamed(colls, collection_name,
                                   BackupName(collection_name))
               /\ Goto("create")
    /\ UNCHANGED <<client, live, scope, bodyExc, result, enters>>
    /\ UNCHANGED argVars
    /\ UNCHANGED otherVars

\* cursor.db.create_collection(self.collection.name)
create_collection ==
    /\ pc = "create"
    /\ \E ok \in BOOLEAN :
          IF NoCollection
          THEN /\ Throw("create", AttributeError, FALSE)
               /\ UNCHANGED colls
          ELSE IF ~ok
          THEN /\ Throw("create", OperationFailure, TRUE)
               /\ UNCHANGED colls
          ELSE IF CreateRefused(colls, collection_name)
          THEN /\ Throw("create", CollectionInvalid, FALSE)
               /\ UNCHANGED colls
          ELSE /\ colls' = Created(colls, collection_name)
               /\ Goto("bulk")
    /\ UNCHANGED <<client, live, scope, bodyExc, result, enters>>
    /\ UNCHANGED argVars
    /\ UNCHANGED otherVars

\* self.collection.bulk_write(bulk_operations), inside the try: it raises on
\* an empty list; otherwise it applies every operation, or raises after the
\* first k of them.
BulkWrite(ops) ==
    IF NoCollection
    THEN /\ Catch("bulk_write", AttributeError, FALSE)
         /\ UNCHANGED colls
    ELSE IF ops = <<>>
    THEN /\ Catch("bulk_write", InvalidOperation, FALSE)
         /\ UNCHANGED colls
    ELSE \E k \in 0..Len(ops), x \in BulkErrors \cup {None} :
            IF x = None
            THEN /\ colls' = BulkWritten(colls, collection_name, ops, Len(ops))
                 /\ Goto("commit")
            ELSE /\ colls' = BulkWritten(colls, collection_name, ops, k)
                 /\ Catch("bulk_write", x, TRUE)

\* bulk_operations = [DeleteMany({}), *[InsertOne(document) ...]]; bulk_write
drop_all_bulk_write ==
    /\ pc = "bulk"
    /\ method = "drop_all_and_insert"
    /\ BulkWrite(ReplaceOps(data))
    /\ UNCHANGED <<client, live, scope, bodyExc, result, enters>>
    /\ UNCHANGED argVars
    /\ UNCHANGED otherVars

\* if preserve_backup is False: cursor.db.drop_collection(<name>_backup)
\* (the last statement of the try in both write methods)
Commit ==
    IF preserve_backup
    THEN /\ Goto("exit")
         /\ UNCHANGED colls
    ELSE \E ok \in BOOLEAN :
            IF NoCollection
            THEN /\ Catch("commit", AttributeError, FALSE)
                 /\ UNCHANGED colls
            ELSE IF ~ok
            THEN /\ Catch("commit", OperationFailure, TRUE)
                 /\ UNCHANGED colls
            ELSE /\ colls' = Dropped(colls, BackupName(collection_name))
                 /\ Goto("exit")

drop_all_commit ==
    /\ pc = "commit"
    /\ method = "drop_all_and_insert"
    /\ Commit
    /\ UNCHANGED <<client, live, scope, bodyExc, result, enters>>
    /\ UNCHANGED argVars
    /\ UNCHANGED otherVars

\* except Exception as e:
\*     self.collection.rename(self.collection.name)
\*     cursor.db.drop_collection(f"{self.collection.name}_backup")
\*     raise e
\* self.collection is the target (cursor.db[self.collection_name]), so this
\* rename is of the target onto its own name, which the server refuses; the
\* two statements after it run only if that rename returns.
drop_all_restore ==
    /\ pc = "except"
    /\ method = "drop_all_and_insert"
    /\ \E ok \in BOOLEAN, okDrop \in BOOLEAN :
          IF NoCollection
          THEN /\ Throw("restore_rename", AttributeError, FALSE)
               /\ UNCHANGED colls
          ELSE IF RenameRefused(colls, collection_name, collection_name)
          THEN /\ Throw("restore_rename", OperationFailure, FALSE)
               /\ UNCHANGED colls
          ELSE IF ~ok
          THEN /\ Throw("restore_rename", OperationFailure, TRUE)
               /\ UNCHANGED colls
          ELSE IF ~okDrop
          THEN /\ colls' = Renamed(colls, collection_name, collection_name)
               /\ Throw("restore_drop", OperationFailure, TRUE)
          ELSE /\ colls' = Dropped(Renamed(colls, collection_name,
                                           collection_name),
                                   BackupName(collection_name))
               /\ raised' = raised
               /\ faults' = faults
               /\ exc' = e
               /\ pc' = "exit"
               /\ UNCHANGED <<e, status>>
    /\ UNCHANGED <<client, live, scope, bodyExc, result, enters>>
    /\ UNCHANGED argVars
    /\ UNCHANGED otherVars

\* insert(data, preserve_backup=...): `with self.cursor`
insert ==
    /\ Fresh
    /\ \E d \in SeqsUpTo(MaxDocs), p \in BOOLEAN :
          /\ Len(Target.docs) + Len(d) <= MaxDocs
          /\ Call("insert", d, p, None)
    /\ EnterWith("mirror")
    /\ UNCHANGED <<colls, scope>>
    /\ UNCHANGED otherVars

\* self.collection.aggregate([{"$out": f"{self.collection.name}_backup"}])
aggregate_out ==
    /\ pc = "mirror"
    /\ \E ok \in BOOLEAN :
          IF NoCollection
          THEN /\ Throw("mirror", AttributeError, FALSE)
               /\ UNCHANGED colls
          ELSE IF ~ok
          THEN /\ Throw("mirror", OperationFailure, TRUE)
               /\ UNCHANGED colls
          ELSE /\ colls' = Mirrored(colls, collection_name,
                                    BackupName(collection_name))
               /\ Goto("bulk")
    /\ UNCHANGED <<client, live, scope, bodyExc, result, enters>>
    /\ UNCHANGED argVars
    /\ UNCHANGED otherVars

\* bulk_operations = [InsertOne(document) for document in data]; bulk_write
insert_bulk_write ==
    /\ pc = "bulk"
    /\ method = "insert"
    /\ BulkWrite(InsertOps(data))
    /\ UNCHANGED <<client, live, scope, bodyExc, result, enters>>
    /\ UNCHANGED argVars
    /\ UNCHANGED otherVars

insert_commit ==
    /\ pc = "commit"
    /\ method = "insert"
    /\ Commit
    /\ UNCHANGED <<client, live, scope, bodyExc, result, enters>>
    /\ UNCHANGED argVars
    /\ UNCHANGED otherVars

\* except: cursor.db.drop_collection(f"{self.collection.name}")
insert_drop_target ==
    /\ pc = "except"
    /\ method = "insert"
    /\ \E ok \in BOOLEAN :
          IF NoCollection
          THEN /\ Throw("restore_drop", AttributeError, FALSE)
               /\ UNCHANGED colls
          ELSE IF ~ok
          THEN /\ Throw("restore_drop", OperationFailure, TRUE)
               /\ UNCHANGED colls
          ELSE /\ colls' = Dropped(colls, collection_name)
               /\ Goto("restore")
    /\ UNCHANGED <<client, live, scope, bodyExc, result, enters>>
    /\ UNCHANGED argVars
    /\ UNCHANGED otherVars

\* cursor.db[f"{self.collection.name}_backup"].rename(self.collection.name)
\* raise e
insert_rename_back ==
    /\ pc = "restore"
    /\ \E ok \in BOOLEAN :
          IF NoCollection
          THEN /\ Throw("restore_rename", AttributeError, FALSE)
               /\ UNCHANGED colls
          ELSE IF RenameRefused(colls, BackupName(collection_name),
                                collection_name)
          THEN /\ Throw("restore_rename", OperationFailure, FALSE)
               /\ UNCHANGED colls
          ELSE IF ~ok
          THEN /\ Throw("restore_rename", OperationFailure, TRUE)
               /\ UNCHANGED colls
          ELSE /\ colls' = Renamed(colls, BackupName(collection_name),
                                   collection_name)
               /\ raised' = raised
               /\ faults' = faults
               /\ exc' = e
               /\ pc' = "exit"
               /\ UNCHANGED <<e, status>>
    /\ UNCHANGED <<client, live, scope, bodyExc, result, enters>>
    /\ UNCHANGED argVars
    /\ UNCHANGED otherVars

\* --------------------------------------------------------- MongoReader
\* pd.DataFrame.from_records(cursor_data): the rows of the table
DataFrame(records) == [rows |-> records]

\* get_data(query): `with self.cursor`
get_data ==
    /\ Ready
    /\ live < MaxLive
    /\ \E q \in Queries : Call("get_data", <<>>, FALSE, q)
    /\ EnterWith("find_data")
    /\ UNCHANGED <<colls, scope>>
    /\ UNCHANGED otherVars

\* cursor_data = self._find(query, fields); data = list(cursor_data); return data
find_data ==
    /\ pc = "find_data"
    /\ \E ok \in BOOLEAN :
          IF NoCollection
          THEN /\ Throw("find", AttributeError, FALSE)
               /\ UNCHANGED result
          ELSE IF ~ok
          THEN /\ Throw("find", OperationFailure, TRUE)
               /\ UNCHANGED result
          ELSE /\ result' = Find(colls, collection_name, query)
               /\ Goto("exit")
    /\ UNCHANGED <<colls, client, live, scope, bodyExc, enters>>
    /\ UNCHANGED argVars
    /\ UNCHANGED otherVars

\* get_df(query): `with self.cursor`
get_df ==
    /\ Ready
    /\ live < MaxLive
    /\ \E q \in Queries : Call("get_df", <<>>, FALSE, q)
    /\ EnterWith("find_df")
    /\ UNCHANGED <<colls, scope>>
    /\ UNCHANGED otherVars

\* cursor_data = self._find(query, fields)
\* df = pd.DataFrame.from_records(cursor_data); return df
find_df ==
    /\ pc = "find_df"
    /\ \E ok \in BOOLEAN :
          IF NoCollection
          THEN /\ Throw("find", AttributeError, FALSE)
               /\ UNCHANGED result
          ELSE IF ~ok
          THEN /\ Throw("find", OperationFailure, TRUE)
               /\ UNCHANGED result
          ELSE /\ result' = DataFrame(Find(colls, collection_name, query))
               /\ Goto("exit")
    /\ UNCHANGED <<colls, client, live, scope, bodyExc, enters>>
    /\ UNCHANGED argVars
    /\ UNCHANGED otherVars

\* exists(query): `with self.cursor`
exists ==
    /\ Ready
    /\ live < MaxLive
    /\ \E q \in Queries : Call("exists", <<>>, FALSE, q)
    /\ EnterWith("count")
    /\ UNCHANGED <<colls, scope>>
    /\ UNCHANGED otherVars

\* self.collection.count_documents(query, limit=1)
CountAnyDocument(cs, name, q, limit) ==
    LET n == Len(cs[name].docs) IN IF n > limit THEN limit ELSE n
CountDocuments(cs, name, q, limit) ==
    LET n == Len(Find(cs, name, q)) IN IF n > limit THEN limit ELSE n

\* count = self.collection.count_documents(query, limit=1); after the with
\* block: return count > 0
count_documents ==
    /\ pc = "count"
    /\ \E ok \in BOOLEAN :
          IF NoCollection
          THEN /\ Throw("count", AttributeError, FALSE)
               /\ UNCHANGED result
          ELSE IF ~ok
          THEN /\ Throw("count", OperationFailure, TRUE)
               /\ UNCHANGED result
          ELSE /\ result' = (CountDocuments(colls, collection_name, query, 1) > 0)
               /\ Goto("exit")
    /\ UNCHANGED <<colls, client, live, scope, bodyExc, enters>>
    /\ UNCHANGED argVars
    /\ UNCHANGED otherVars

\* ------------------------------------------------------------ the system
Next ==
    \/ connect
    \/ close
    \/ enter_scope
    \/ body_raise
    \/ exit_scope
    \/ exit
    \/ drop_all_and_insert
    \/ rename_to_backup
    \/ create_collection
    \/ drop_all_bulk_write
    \/ drop_all_commit
    \/ drop_all_restore
    \/ insert
    \/ aggregate_out
    \/ insert_bulk_write
    \/ insert_commit
    \/ insert_drop_target
    \/ insert_rename_back
    \/ get_data
    \/ find_data
    \/ get_df
    \/ find_df
    \/ exists
    \/ count_documents

Spec == Init /\ [][Next]_vars

\* ---------------------------------------------------------- selection
\* The db property of the cursor and the collection property of a reader or
\* writer: None without a client, else the object the names lead to.
dbOfName == db_name
db == IF client = None THEN None ELSE db_name
collection == IF client = None THEN None ELSE db_name \o "." \o selected

\* check_valid_db(db_name): the name is looked up in the list the server
\* gives at that moment.
DbAssumed(srv, name) == TRUE
DbFound(srv, name) == name \in list_database_names(srv)

\* check_valid_collection(collection_name), in the database self.db_name
CollectionAssumed(srv, d, name) == TRUE
CollectionFound(srv, d, name) == name \in list_collection_names(srv, d)

\* What set_db and set_collection leave alone.
selFrame ==
    /\ enters' = 0
    /\ UNCHANGED <<colls, client, live, scope, server>>
    /\ UNCHANGED <<cfgVars, findVars, raceVars>>

\* cursor.set_db(name): check_valid_db(name), then self.db_name = name
set_db ==
    /\ Ready
    /\ \E name \in DbNames, ok \in BOOLEAN :
          /\ Call("set_db", <<>>, FALSE, None)
          /\ selArg' = name
          /\ selBefore' = db_name
          /\ IF ~ok
             THEN /\ selListed' = {}
                  /\ raised' = {"list_database_names"}
                  /\ faults' = {"list_database_names"}
                  /\ Finish("raised", OperationFailure)
                  /\ UNCHANGED db_name
             ELSE /\ selListed' = list_database_names(server)
                  /\ faults' = {}
                  /\ IF DbFound(server, name)
                     THEN /\ db_name' = name
                          /\ raised' = {}
                          /\ Finish("returned", None)
                     ELSE /\ raised' = {"check_valid_db"}
                          /\ Finish("raised", ValueError)
                          /\ UNCHANGED db_name
    /\ UNCHANGED selected
    /\ selFrame

\* reader.set_collection(name) or writer.set_collection(name):
\* cursor.check_valid_collection(name), then self.collection_name = name
set_collection ==
    /\ Ready
    /\ \E name \in CollectionNames, ok \in BOOLEAN :
          /\ Call("set_collection", <<>>, FALSE, None)
          /\ selArg' = name
          /\ selBefore' = selected
          /\ IF ~ok
             THEN /\ selListed' = {}
                  /\ raised' = {"list_collection_names"}
                  /\ faults' = {"list_collection_names"}
                  /\ Finish("raised", OperationFailure)
                  /\ UNCHANGED selected
             ELSE /\ selListed' = list_collection_names(server, db_name)
                  /\ faults' = {}
                  /\ IF CollectionFound(server, db_name, name)
                     THEN /\ selected' = name
                          /\ raised' = {}
                          /\ Finish("returned", None)
                     ELSE /\ raised' = {"check_valid_collection"}
                          /\ Finish("raised", ValueError)
                          /\ UNCHANGED selected
    /\ UNCHANGED db_name
    /\ selFrame

\* Between two calls of this process other clients of the server create and
\* drop collections, and with them databases: the lists are live.
serverFrame ==
    /\ pc \in {"idle", "done"}
    /\ UNCHANGED <<colls, client, live, scope, bodyExc, pc, method, data,
                   preserve_backup, query, e, exc, status, result, pre,
                   clientBefore, liveBefore, enters, raised, faults>>
    /\ UNCHANGED <<db_name, selected, selArg, selBefore, selListed>>
    /\ UNCHANGED <<cfgVars, findVars, raceVars>>

server_create ==
    /\ \E d \in DbNames, c \in CollectionNames :
          /\ c \notin server[d]
          /\ server' = [server EXCEPT ![d] = @ \cup {c}]
    /\ serverFrame

server_drop ==
    /\ \E d \in DbNames, c \in CollectionNames :
          /\ c \in server[d]
          /\ server' = [server EXCEPT ![d] = @ \ {c}]
    /\ serverFrame

\* A cursor on a database of the server and a reader or writer on one of its
\* collections, as their constructors leave them.
InitSelect ==
    /\ InitCursor({<<>>})
    /\ InitCallers
    /\ InitConfig(NoFile)
    /\ InitFind(NoValue, FALSE)
    /\ \E srv \in [DbNames -> SUBSET CollectionNames] :
          \E d \in list_database_names(srv) :
             \E c \in list_collection_names(srv, d) :
                InitSelection(srv, d, c)

NextSelect ==
    \/ connect
    \/ close
    \/ enter_scope
    \/ body_raise
    \/ exit_scope
    \/ set_db
    \/ set_collection
    \/ server_create
    \/ server_drop

SpecSelect == InitSelect /\ [][NextSelect]_vars

\* ------------------------------------------------------------- config
\* The ValueErrors of _check_credentials and of the constructor, told apart
\* by their messages.
ArgName(option) ==
    CASE option = "MONGO_USERNAME" -> "username"
      [] option = "MONGO_PASSWORD" -> "password"
      [] option = "MONGO_CLUSTER" -> "cluster"
      [] option = "MONGO_DB" -> "db_name"
MissingConfigError ==
    "No credentials provided and config.ini file does not exist."
MissingCredentialsError(option) ==
    "Missing credentials: " \o ArgName(option) \o " must provided"
MissingDbError == "No database name provided."
InterpolationError == "invalid interpolation syntax"

\* What the config calls leave alone.
cfgFrame ==
    /\ UNCHANGED <<colls, client, live, scope, bodyExc, data, preserve_backup,
                   query, e, result, pre, clientBefore, liveBefore, enters,
                   raised, faults>>
    /\ UNCHANGED <<selVars, findVars, raceVars>>

\* set_config(username, password, cluster, db): read the file (an empty
\* section when there is none), set the supplied options, write the file.
\* A value the parser refuses raises before the file is opened for writing.
set_config ==
    /\ pc \in {"idle", "done"}
    /\ \E args \in SetConfigArgs :
          LET base == IF config.exists THEN config.options ELSE NoOptions
              supplied == {o \in Options : args[o] # NoValue}
          IN  /\ cfgArgs' = args
              /\ cfgBefore' = config
              /\ credentials' = NoOptions
              /\ IF \E o \in supplied : ~ValidValue(args[o])
                 THEN /\ Finish("raised", InterpolationError)
                      /\ UNCHANGED <<config, written>>
                 ELSE /\ config' = File([o \in Options |->
                                           IF o \in supplied
                                           THEN Stored(args[o])
                                           ELSE base[o]])
                      /\ written' = [o \in Options |->
                                        IF o \in supplied
                                        THEN args[o]
                                        ELSE written[o]]
                      /\ Finish("returned", None)
    /\ method' = "set_config"
    /\ cfgFrame

\* One field of _check_credentials: the argument, or without one the option
\* of the file.
ResolvedFromFile(arg, file, option) ==
    IF has_option(file, option) THEN Get(file, option) ELSE arg
Resolved(arg, file, option) ==
    IF arg # NoValue THEN arg ELSE Get(file, option)

\* The places, in the order username, password, cluster, of the fields
\* that neither the arguments nor the file have; the check stops at the
\* first of them.
Missing(args, file) ==
    {i \in DOMAIN CredentialOptions :
        /\ args[CredentialOptions[i]] = NoValue
        /\ ~has_option(file, CredentialOptions[i])}
LastMissing(args, file) ==
    CredentialOptions[CHOOSE i \in Missing(args, file) :
                         \A j \in Missing(args, file) : j <= i]
FirstMissing(args, file) ==
    CredentialOptions[CHOOSE i \in Missing(args, file) :
                         \A j \in Missing(args, file) : i <= j]

\* _check_credentials(username, password, cluster)
check_credentials ==
    /\ pc \in {"idle", "done"}
    /\ \E args \in [Options -> CallSiteValues] :
          /\ args["MONGO_DB"] = NoValue
          /\ cfgArgs' = args
          /\ cfgBefore' = config
          /\ IF \A o \in Credentials : args[o] # NoValue
             THEN /\ credentials' = args
                  /\ Finish("returned", None)
             ELSE IF ~config.exists
             THEN /\ credentials' = NoOptions
                  /\ Finish("raised", MissingConfigError)
             ELSE IF Missing(args, config) # {}
             THEN /\ credentials' = NoOptions
                  /\ Finish("raised",
                            MissingCredentialsError(FirstMissing(args, config)))
             ELSE /\ credentials' = [o \in Options |->
                                        IF o \in Credentials
                                        THEN Resolved(args[o], config, o)
                                        ELSE NoValue]
                  /\ Finish("returned", None)
    /\ method' = "_check_credentials"
    /\ UNCHANGED <<config, written>>
    /\ cfgFrame

\* The constructor's choice of the database name (credentials given as
\* arguments): the db_name argument, else MONGO_DB of the file, else an
\* error. The name found goes to set_db.
lookup_db ==
    /\ pc \in {"idle", "done"}
    /\ \E name \in CallSiteValues :
          /\ cfgArgs' = [NoOptions EXCEPT !["MONGO_DB"] = name]
          /\ cfgBefore' = config
          /\ IF name # NoValue
             THEN /\ credentials' = [NoOptions EXCEPT !["MONGO_DB"] = name]
                  /\ Finish("returned", None)
             ELSE IF has_option(config, "MONGO_DB")
             THEN /\ credentials' =
                        [NoOptions EXCEPT !["MONGO_DB"] = Get(config, "MONGO_DB")]
                  /\ Finish("returned", None)
             ELSE /\ credentials' = NoOptions
                  /\ Finish("raised", MissingDbError)
    /\ method' = "__init__"
    /\ UNCHANGED <<config, written>>
    /\ cfgFrame

\* No config.ini yet; every other file is one set_config wrote.
InitCfg ==
    /\ InitCursor({<<>>})
    /\ InitCallers
    /\ InitConfig(NoFile)
    /\ InitSelection([d \in DbNames |->
                         IF d = "db1" THEN {collection_name} ELSE {}],
                     "db1", collection_name)
    /\ InitFind(NoValue, FALSE)

NextConfig ==
    \/ set_config
    \/ check_credentials
    \/ lookup_db

SpecConfig == InitCfg /\ [][NextConfig]_vars

\* -------------------------------------------------------------- _find
\* if query is None: query = {}
FilterOf(q) == IF q = None THEN MatchAll ELSE q

\* fields = {} if fields is None else {field: 1 for field in fields}
FieldsDict(fs) ==
    IF fs = NoValue THEN <<>> ELSE [f \in {fs[i] : i \in DOMAIN fs} |-> 1]

\* if self.include_id is False and "_id" not in fields: fields["_id"] = 0
IdAlwaysExcluded(dict, inc) ==
    [f \in DOMAIN dict \cup {"_id"} |-> IF f = "_id" THEN 0 ELSE dict[f]]
IdExcluded(dict, inc) ==
    IF inc = FALSE /\ "_id" \notin DOMAIN dict
    THEN [f \in DOMAIN dict \cup {"_id"} |-> IF f = "_id" THEN 0 ELSE dict[f]]
    ELSE dict

\* reader._find(query, fields), up to the call of Collection.find
find ==
    /\ pc \in {"idle", "done"}
    /\ \E q \in Queries :
          /\ query' = q
          /\ find_args' = [filter |-> FilterOf(q),
                           projection |-> IdExcluded(FieldsDict(fields),
                                                     include_id)]
    /\ method' = "_find"
    /\ Finish("returned", None)
    /\ UNCHANGED <<colls, client, live, scope, bodyExc, data, preserve_backup,
                   e, result, pre, clientBefore, liveBefore, enters, raised,
                   faults>>
    /\ UNCHANGED <<cfgVars, selVars, fields, include_id, raceVars>>

\* A reader built with either include_id, about to be asked for any fields.
InitFields ==
    /\ InitCursor({<<>>})
    /\ InitCallers
    /\ InitConfig(NoFile)
    /\ InitSelection([d \in DbNames |->
                         IF d = "db1" THEN {collection_name} ELSE {}],
                     "db1", collection_name)
    /\ \E fs \in FieldLists \cup {NoValue}, inc \in BOOLEAN : InitFind(fs, inc)

NextFind == find

SpecFind == InitFields /\ [][NextFind]_vars

\* ------------------------------------------------------ a shared cursor
\* Two callers (threads) use one AuthenticatedCursor through reader or writer
\* methods. Each method is `with self.cursor:` around accesses to
\* self.collection; the steps of the two callers interleave.
sharedFrame ==
    /\ UNCHANGED <<colls, scope, bodyExc, pc, method, data, preserve_backup,
                   query, e, exc, status, result, pre, clientBefore,
                   liveBefore, enters, raised, faults>>
    /\ UNCHANGED <<cfgVars, selVars, findVars>>

In(c, where) == [callers EXCEPT ![c] = [@ EXCEPT !.pc = where]]
Ended(c, x) ==
    [callers EXCEPT ![c] = [pc |-> "done",
                            status |-> IF x = None THEN "returned" ELSE "raised",
                            exc |-> x]]

\* self.collection.<method>(...): the collection property is None without a
\* client, and None has no such method.
AccessedAnyway(cl) == None
Accessed(cl) == IF cl = None THEN AttributeError ELSE None

\* `with self.cursor:` -- __enter__ connects
shared_enter(c) ==
    /\ callers[c].pc \in {"idle", "done"}
    /\ live < MaxLive
    /\ \E ok \in BOOLEAN :
          IF ok
          THEN /\ Connected
               /\ callers' = [callers EXCEPT ![c] = [pc |-> "body",
                                                     status |-> "running",
                                                     exc |-> None]]
          ELSE /\ UNCHANGED cursorVars
               /\ callers' = Ended(c, ConfigurationError)
    /\ UNCHANGED closer
    /\ sharedFrame

\* the statement of the block that uses self.collection
shared_access(c) ==
    /\ callers[c].pc = "body"
    /\ \E ok \in BOOLEAN :
          callers' = [callers EXCEPT ![c] =
                        [pc |-> "leaving",
                         status |-> "running",
                         exc |-> IF client # None /\ ~ok
                                 THEN OperationFailure
                                 ELSE Accessed(client)]]
    /\ UNCHANGED <<client, live, closer>>
    /\ sharedFrame

\* __exit__: if self._client is not None
shared_exit_check(c) ==
    /\ callers[c].pc = "leaving"
    /\ callers' = IF client # None
                  THEN In(c, "closing")
                  ELSE Ended(c, callers[c].exc)
    /\ UNCHANGED <<client, live, closer>>
    /\ sharedFrame

\* __exit__: self.close(), that is self._client.close(); self._client = None
shared_close(c) ==
    /\ callers[c].pc = "closing"
    /\ IF client = None
       THEN /\ callers' = Ended(c, AttributeError)
            /\ UNCHANGED <<client, live, closer>>
       ELSE /\ Closed
            /\ closer' = c
            /\ callers' = Ended(c, callers[c].exc)
    /\ sharedFrame

InitShared ==
    /\ InitCursor({<<>>})
    /\ InitCallers
    /\ InitConfig(NoFile)
    /\ InitSelection([d \in DbNames |->
                         IF d = "db1" THEN {collection_name} ELSE {}],
                     "db1", collection_name)
    /\ InitFind(NoValue, FALSE)

NextShared ==
    \/ \E c \in Callers : shared_enter(c)
    \/ \E c \in Callers : shared_access(c)
    \/ \E c \in Callers : shared_exit_check(c)
    \/ \E c \in Callers : shared_close(c)

SpecShared == InitShared /\ [][NextShared]_vars

\* ------------------------------------------------------------ properties
Writers == {"drop_all_and_insert", "insert"}
Readers == {"get_data", "get_df", "exists"}

\* the call of method m has returned or raised
Done(m) == pc = "done" /\ method = m

\* the documents of the target when the call was made
T == pre[collection_name].docs

\* the bulk operation raised, and no other driver call of the method failed
\* on its own account
OnlyBulkRaised == "bulk_write" \in raised /\ faults \subseteq {"bulk_write"}

\* the same records, in any order
Count(s, d) == Cardinality({i \in 1..Len(s) : s[i] = d})
SameRecords(s, t) == \A d \in Docs : Count(s, d) = Count(t, d)

\* C1: drop_all_and_insert, when the bulk operation raises: once the call has
\* raised, the target holds exactly its pre-write documents and there is no
\* backup collection.
C1_ReplaceAllRestores ==
    (Done("drop_all_and_insert") /\ OnlyBulkRaised)
        => /\ status = "raised"
           /\ Target.docs = T
           /\ ~Backup.exists

\* C2: insert, when the bulk operation raises (the rollback's own driver
\* calls completing): once the call has raised, the target holds exactly its
\* pre-write documents, none of the input, and there is no backup collection,
\* whatever preserve_backup is.
C2_InsertRestores ==
    (Done("insert") /\ OnlyBulkRaised)
        => /\ status = "raised"
           /\ Target.exists
           /\ Target.docs = T
           /\ ~Backup.exists

\* an insert whose bulk operation raised after writing part of a two-document
\* input onto a non-empty target, rolled back
C2_Witness ==
    /\ Done("insert")
    /\ OnlyBulkRaised
    /\ e \in BulkErrors
    /\ T # <<>>
    /\ data # <<>>
    /\ preserve_backup
    /\ Target.docs = T

\* C3: drop_all_and_insert with preserve_backup off, when no step raises: the
\* call returns, the target holds exactly the input records and there is no
\* backup collection.
C3_ReplaceAllCommits ==
    (Done("drop_all_and_insert") /\ raised = {} /\ ~preserve_backup)
        => /\ status = "returned"
           /\ Target.exists
           /\ Target.docs = data
           /\ ~Backup.exists

\* a replace-all that returned, with input different from the old content
C3_Witness ==
    /\ Done("drop_all_and_insert")
    /\ raised = {}
    /\ ~preserve_backup
    /\ T = <<"A", "B">>
    /\ data = <<"B">>
    /\ Target.docs = <<"B">>

\* C4: insert with preserve_backup off, when no step raises: the call
\* returns, the target holds the pre-write records together with the input
\* records (in any order) and there is no backup collection.
C4_InsertAppends ==
    (Done("insert") /\ raised = {} /\ ~preserve_backup)
        => /\ status = "returned"
           /\ Target.exists
           /\ SameRecords(Target.docs, T \o data)
           /\ ~Backup.exists

\* an insert of [B] onto [A] that returned
C4_Witness ==
    /\ Done("insert")
    /\ raised = {}
    /\ ~preserve_backup
    /\ T = <<"A">>
    /\ data = <<"B">>
    /\ Len(Target.docs) = 2

\* C5: after a write call has returned or raised, either the target holds the
\* new data and there is no backup collection, or the target holds exactly
\* its pre-write documents; a backup collection is never left beside a
\* partially written target. Stated for the calls where preserve_backup is
\* off and nothing but the bulk operation fails.
NewData == IF method = "insert" THEN T \o data ELSE data
C5_AllOrNothing ==
    (pc = "done" /\ method \in Writers /\ ~preserve_backup
        /\ faults \subseteq {"bulk_write"})
        => \/ status = "returned" /\ Target.docs = NewData /\ ~Backup.exists
           \/ status = "raised" /\ Target.docs = T

\* C6: after a write call that returned, with preserve_backup the backup
\* collection exists and holds exactly the documents the target held when the
\* call was made; without it the backup collection does not exist.
C6_PreserveBackup ==
    (pc = "done" /\ method \in Writers /\ status = "returned")
        => IF preserve_backup
           THEN Backup.exists /\ Backup.docs = T
           ELSE ~Backup.exists

\* both write modes returned with preserve_backup on a non-empty target that
\* the call changed
C6_Witness ==
    /\ pc = "done"
    /\ method \in Writers
    /\ status = "returned"
    /\ preserve_backup
    /\ T # <<>>
    /\ Target.docs # T
    /\ Backup.docs = T

\* C7: when the bulk operation raises E, the call raises, and the exception
\* that reaches the caller is E.
C7_SameException ==
    (pc = "done" /\ method \in Writers /\ OnlyBulkRaised)
        => /\ status = "raised"
           /\ exc = e

\* C8: the caller's with block: after __enter__ the client is open; after
\* __exit__, on the normal and on the exceptional path, the client that was
\* open has been closed and client is None, and an exception that left the
\* body reaches the caller.
C8_ScopedResource ==
    /\ (Done("__enter__") /\ status = "returned")
          => (scope = "body" /\ client # None)
    /\ Done("__exit__")
          => /\ client = None
             /\ live = IF clientBefore = None THEN liveBefore ELSE liveBefore - 1
             /\ IF bodyExc = None
                THEN status = "returned"
                ELSE status = "raised" /\ exc = bodyExc

\* the with block was left by an exception with its client still open
C8_Witness ==
    /\ Done("__exit__")
    /\ bodyExc = BodyError
    /\ clientBefore # None
    /\ status = "raised"
    /\ client = None

\* C9: a reader or writer method called on a handle with no open client
\* enters one connection scope and leaves the handle with no open client, and
\* no client of its own still open, when it returns and when it raises.
C9_MethodsReleaseClient ==
    (pc = "done" /\ method \in Readers \cup Writers /\ clientBefore = None)
        => /\ enters = 1
           /\ client = None
           /\ live = liveBefore

\* a write call whose rollback ran has raised
C9_Witness ==
    /\ Done("insert")
    /\ clientBefore = None
    /\ "bulk_write" \in raised
    /\ status = "raised"
    /\ Target.docs = T
    /\ client = None

\* C10: close() on a handle with no open client returns without raising and
\* leaves client None.
C10_CloseWithoutClient ==
    (Done("close") /\ clientBefore = None)
        => /\ status = "returned"
           /\ client = None

\* C11: after any sequence of connect, close, scope-enter and scope-exit
\* calls the handle has at most one client that it opened and did not close.
C11_AtMostOneLiveClient == live <= 1

\* C20: exists(query) returns True exactly when some record of the
\* collection matches the query (an omitted query matches every record),
\* False on an empty collection, and leaves the database as it was.
C20_Exists ==
    (Done("exists") /\ status = "returned")
        => /\ result = (\E i \in 1..Len(T) : query = None \/ query = T[i])
           /\ (T = <<>> => result = FALSE)
           /\ colls = pre

\* the second record is the only one that matches
C20_Witness ==
    /\ Done("exists")
    /\ status = "returned"
    /\ query = "A"
    /\ T = <<"B", "A">>
    /\ result = TRUE

\* C12: set_db(name) fails with the not-found error and keeps db_name when
\* name is not in the live list of databases, and otherwise makes db_name
\* name; so db_name only ever becomes a name the server listed at that call.
C12_SetDb ==
    /\ [](Done("set_db") =>
             IF faults # {}
             THEN status = "raised" /\ db_name = selBefore
             ELSE IF selArg \in selListed
             THEN status = "returned" /\ db_name = selArg
             ELSE status = "raised" /\ exc = ValueError /\ db_name = selBefore)
    /\ [][db_name' # db_name => db_name' \in list_database_names(server)]_vars

\* a database without collections is not listed: the selection stays
C12_Witness ==
    /\ Done("set_db")
    /\ selArg = "db2"
    /\ selListed = {"db1"}
    /\ status = "raised"
    /\ exc = ValueError
    /\ db_name = "db1"

\* C13: set_collection(name) fails with the not-found error and keeps
\* collection_name when name is not in the live collection list of the
\* selected database, and otherwise succeeds and makes collection_name name.
C13_SetCollection ==
    Done("set_collection") =>
        IF faults # {}
        THEN status = "raised" /\ selected = selBefore
        ELSE IF selArg \in selListed
        THEN status = "returned" /\ selected = selArg
        ELSE status = "raised" /\ exc = ValueError /\ selected = selBefore

\* the other collection of the database is selected
C13_Witness ==
    /\ Done("set_collection")
    /\ selBefore = collection_name
    /\ selArg = "other"
    /\ selListed = CollectionNames
    /\ status = "returned"
    /\ selected = "other"

\* C14 as stated: after close() or after the with block is left, neither the
\* database name nor the collection name is set.
C14_SelectionsCleared ==
    (pc = "done" /\ method \in {"close", "__exit__"} /\ status = "returned")
        => (db_name = None /\ selected = None)

\* C14, amended: after close() or after the with block is left, the db and
\* collection objects of the handle are None, and the selected database name
\* and collection name are what they were before.
C14_ObjectsCleared ==
    /\ []((pc = "done" /\ method \in {"close", "__exit__"})
             => (db = None /\ collection = None))
    /\ [][method' \in {"close", "__exit__"}
             => (db_name' = db_name /\ selected' = selected)]_vars

\* names selected after construction are still there after close()
C14_Witness ==
    /\ Done("close")
    /\ status = "returned"
    /\ clientBefore # None
    /\ client = None
    /\ db_name = "db2"
    /\ selected = "other"

\* C15: each field _check_credentials returns is the call-site argument when
\* one was supplied, whatever the file holds, and the value read from the
\* file only when the argument was omitted.
C15_ArgumentFirst ==
    (Done("_check_credentials") /\ status = "returned")
        => \A o \in Credentials :
              credentials[o] = IF cfgArgs[o] # NoValue
                               THEN cfgArgs[o]
                               ELSE Get(config, o)

\* the file has another username than the one supplied; the password comes
\* from the file
C15_Witness ==
    /\ Done("_check_credentials")
    /\ status = "returned"
    /\ cfgArgs["MONGO_USERNAME"] = <<"b">>
    /\ GetRaw(config, "MONGO_USERNAME") = <<"a">>
    /\ credentials["MONGO_USERNAME"] = <<"b">>
    /\ cfgArgs["MONGO_PASSWORD"] = NoValue
    /\ credentials["MONGO_PASSWORD"] = <<"a">>

\* C16: _check_credentials fails exactly when a field is in neither the
\* arguments nor the file: with the missing-file error when there is no file
\* and a field is omitted, else with the missing-credentials error that names
\* the first such field in the order username, password, cluster. A result
\* has no unset field, and three arguments need no file.
C16_MissingCredentials ==
    Done("_check_credentials") =>
        LET omitted == {o \in Credentials : cfgArgs[o] = NoValue}
            absent == {o \in omitted : cfgBefore.options[o] = NoValue}
            first == IF "MONGO_USERNAME" \in absent THEN "MONGO_USERNAME"
                     ELSE IF "MONGO_PASSWORD" \in absent THEN "MONGO_PASSWORD"
                     ELSE "MONGO_CLUSTER"
        IN  /\ (status = "raised") <=> (absent # {})
            /\ status = "raised" =>
                  exc = IF ~cfgBefore.exists
                        THEN MissingConfigError
                        ELSE MissingCredentialsError(first)
            /\ status = "returned" =>
                  \A o \in Credentials : credentials[o] # NoValue
            /\ omitted = {} => status = "returned"

\* the file has the username only; password and cluster are both missing
C16_Witness ==
    /\ Done("_check_credentials")
    /\ cfgArgs = NoOptions
    /\ config.exists
    /\ has_option(config, "MONGO_USERNAME")
    /\ ~has_option(config, "MONGO_PASSWORD")
    /\ ~has_option(config, "MONGO_CLUSTER")
    /\ status = "raised"
    /\ exc = MissingCredentialsError("MONGO_PASSWORD")

\* C17: a stored field changes only in a set_config call that supplies it: a
\* call that omits the field leaves its stored value as it was, and a
\* supplied field is stored with the supplied value.
C17_OnlySuppliedFieldsChange ==
    (pc = "done" /\ method \in {"set_config", "_check_credentials"})
        => \A o \in Options :
              config.options[o] =
                 IF method = "set_config" /\ cfgArgs[o] # NoValue
                 THEN cfgArgs[o]
                 ELSE cfgBefore.options[o]

\* C18: the value set_config last wrote for a field is the value a later
\* read of that field returns: _check_credentials without that argument, or
\* the constructor without db_name.
C18_RoundTrip ==
    \A o \in Options :
       (/\ pc = "done"
        /\ status = "returned"
        /\ \/ method = "_check_credentials" /\ o \in Credentials
           \/ method = "__init__" /\ o = "MONGO_DB"
        /\ cfgArgs[o] = NoValue
        /\ written[o] # NoValue)
           => credentials[o] = written[o]

\* C19: _find sends the match-all query for an omitted query, a projection
\* in which every listed field is 1, and `_id: 0` in it exactly when
\* include_id is False and `_id` is not among the listed fields.
C19_FindArguments ==
    Done("_find") =>
        LET listed == IF fields = NoValue
                      THEN {}
                      ELSE {f \in FieldNames : \E i \in DOMAIN fields : fields[i] = f}
            projection == find_args.projection
        IN  /\ find_args.filter = IF query = None THEN MatchAll ELSE query
            /\ \A f \in listed : f \in DOMAIN projection /\ projection[f] = 1
            /\ DOMAIN projection \subseteq listed \cup {"_id"}
            /\ ("_id" \in DOMAIN projection /\ projection["_id"] = 0)
                  <=> (include_id = FALSE /\ "_id" \notin listed)

\* one field asked for, no query, a reader that leaves the identifier out
C19_Witness ==
    /\ Done("_find")
    /\ query = None
    /\ fields = <<"x">>
    /\ include_id = FALSE
    /\ find_args.filter = MatchAll
    /\ DOMAIN find_args.projection = {"x", "_id"}
    /\ find_args.projection["x"] = 1
    /\ find_args.projection["_id"] = 0

\* C21: a cursor constructed from username, password and cluster, with no
\* db_name argument and no MONGO_DB in the file, is constructed, with no
\* database selected.
C21_DbNameOptional ==
    (/\ Done("__init__")
     /\ cfgArgs["MONGO_DB"] = NoValue
     /\ ~has_option(cfgBefore, "MONGO_DB"))
        => (status = "returned" /\ credentials["MONGO_DB"] = NoValue)

\* The terminal states of a write call, by what the call executed: the
\* commit was reached and nothing raised, or the write raised and every
\* statement of the except block ran, ending with `raise e`.
Committed == status = "returned" /\ raised = {}
RolledBack ==
    /\ status = "raised"
    /\ raised \in {{"bulk_write"}, {"commit"}}
    /\ exc = e

\* C22: a write call ends committed or rolled back and in no other state;
\* here for the calls in which nothing but the bulk write failed.
C22_EndsCommittedOrRolledBack ==
    (pc = "done" /\ method \in Writers /\ faults \subseteq {"bulk_write"}
        /\ raised \cap {"connect", "rename", "create", "mirror"} = {})
        => (Committed \/ RolledBack)

\* the steps of the two except blocks
RollbackSteps == {"restore_rename", "restore_drop"}

\* C23: when a step of the rollback raises, the steps after it are not run
\* (no second step raises, the backup is still there, and nothing is renamed
\* back), the caller gets the rollback's exception, and the client is closed.
C23_RollbackFailure ==
    (pc = "done" /\ method \in Writers /\ raised \cap RollbackSteps # {})
        => /\ status = "raised"
           /\ exc = OperationFailure
           /\ e # None
           /\ Backup.exists
           /\ Backup.docs = T
           /\ Cardinality(raised \cap RollbackSteps) = 1
           /\ method = "drop_all_and_insert" => Target.exists
           /\ (method = "insert" /\ "restore_rename" \in raised)
                 => ~Target.exists
           /\ client = None
           /\ live = liveBefore

\* insert: the write failed, the target was dropped, the rename back failed
C23_Witness ==
    /\ Done("insert")
    /\ e \in BulkErrors
    /\ faults = {"bulk_write", "restore_rename"}
    /\ exc = OperationFailure
    /\ T # <<>>
    /\ ~Target.exists
    /\ Backup.docs = T
    /\ client = None

\* C24: with two callers on one cursor a caller can be inside its own scope
\* while the client is None, and then it was the other caller's exit that
\* closed it; the caller's next access to the collection fails for want of a
\* client.
C24_SharedHandleRace ==
    /\ [](\A c \in Callers :
            (callers[c].pc = "body" /\ client = None)
               => closer \in Callers \ {c})
    /\ [][\A c \in Callers :
            (callers[c].pc = "body" /\ client = None /\ callers'[c] # callers[c])
               => (callers'[c].pc = "leaving" /\ callers'[c].exc = AttributeError)]_vars

\* caller2 has left its scope and closed the client; caller1 is still inside
C24_Witness ==
    /\ callers["caller1"].pc = "body"
    /\ callers["caller2"].pc = "done"
    /\ callers["caller2"].status = "returned"
    /\ closer = "caller2"
    /\ client = None

\* s is the beginning of t
IsPrefix(s, t) == Len(s) <= Len(t) /\ SubSeq(t, 1, Len(s)) = s

\* C25: during an insert call on an existing target in which nothing has
\* failed, up to and including its successful end, the target exists under
\* its own name and holds all the records it had before the call.
C25_InsertKeepsTarget ==
    (/\ method = "insert"
     /\ pc # "idle"
     /\ raised = {}
     /\ pre[collection_name].exists)
        => (Target.exists /\ IsPrefix(T, Target.docs))

\* between the mirror and the bulk write: target and backup both hold the data
C25_Witness ==
    /\ method = "insert"
    /\ pc = "bulk"
    /\ T # <<>>
    /\ Target.docs = T
    /\ Backup.exists
    /\ Backup.docs = T

\* The records the target had before the call are all in the target, or are
\* the contents of the backup.
PreWriteDataKept ==
    \/ IsPrefix(T, Target.docs)
    \/ Backup.docs = T

\* C26: in both write modes, in every state of a call that has not committed
\* (while it runs, during its rollback, and after it raised) the records the
\* target had before the call are in the target or in the backup.
C26_NoDataLost ==
    (/\ method \in Writers
     /\ pc # "idle"
     /\ ~(pc \in {"exit", "done"} /\ raised = {}))
        => PreWriteDataKept

\* replace-all after its failed rollback: the data is in the backup only
C26_Witness ==
    /\ Done("drop_all_and_insert")
    /\ status = "raised"
    /\ "bulk_write" \in raised
    /\ T # <<>>
    /\ ~IsPrefix(T, Target.docs)
    /\ Backup.docs = T

\* C27: drop_all_and_insert does not roll back a failure of its backup
\* phase. When create_collection raises after the rename, the call raises
\* with no collection under the target name and the pre-write records in the
\* backup only; when the rename raises, the database is as it was before.
C27_BackupPhaseFailure ==
    Done("drop_all_and_insert") =>
        /\ "create" \in raised =>
              /\ status = "raised"
              /\ raised = {"create"}
              /\ ~Target.exists
              /\ Backup.exists
              /\ Backup.docs = T
        /\ "rename" \in raised =>
              /\ status = "raised"
              /\ raised = {"rename"}
              /\ colls = pre

\* create_collection failed after the rename
C27_Witness ==
    /\ Done("drop_all_and_insert")
    /\ raised = {"create"}
    /\ exc = OperationFailure
    /\ T # <<>>
    /\ ~Target.exists
    /\ Backup.docs = T

\* the backup collection as it was when the call started
OldBackup == pre[BackupName(collection_name)]

\* C28: a call made while <name>_backup exists: drop_all_and_insert fails at
\* the rename and leaves target and backup as they were; insert replaces the
\* old backup by a copy of the target and goes on to its bulk write.
C28_LeftOverBackup ==
    /\ (Done("drop_all_and_insert") /\ OldBackup.exists /\ "connect" \notin raised)
          => /\ status = "raised"
             /\ raised = {"rename"}
             /\ faults = {}
             /\ colls = pre
    /\ (method = "insert" /\ OldBackup.exists /\ pc = "bulk")
          => /\ raised = {}
             /\ Backup = Present(T)
             /\ Target = pre[collection_name]

\* insert has replaced a backup that held other records than the target
C28_Witness ==
    /\ method = "insert"
    /\ pc = "bulk"
    /\ OldBackup.exists
    /\ pre[collection_name].exists
    /\ OldBackup.docs # T
    /\ Backup.docs = T

\* C29: a reader method called inside the caller's with block enters a
\* second scope on the cursor; when that scope is left the client is None
\* although the caller's block is still active, and the exit of the caller's
\* block then closes nothing, raises nothing of its own and leaves the
\* client None.
C29_ScopesDoNotNest ==
    /\ (scope = "body" /\ pc = "done" /\ method \in Readers
           /\ "connect" \notin raised)
          => client = None
    /\ (Done("__exit__") /\ clientBefore = None)
          => /\ client = None
             /\ live = liveBefore
             /\ bodyExc = None => status = "returned"
             /\ bodyExc # None => exc = bodyExc

\* get_data returned inside the caller's with block: no client, and the one
\* the caller's block opened is still open
C29_Witness ==
    /\ scope = "body"
    /\ Done("get_data")
    /\ status = "returned"
    /\ clientBefore # None
    /\ client = None
    /\ live = 1

====
